---- MODULE Spec2Model ----
(***************************************************************************)
(* Split-value voting: the election orchestrator of sv_election.py         *)
(* (class Election: __init__ and run_election) as a state machine.         *)
(*                                                                         *)
(* sv_election.py is modelled statement by statement.  The collaborators   *)
(* it imports (sv, sv_sbb, sv_race, sv_voter, sv_server, sv_tally,         *)
(* sv_prover) are modelled from the specification's sections 3 to 7.       *)
(***************************************************************************)
EXTENDS Integers, Sequences, FiniteSets, TLC

(***************************************************************************)
(* Bounds of the model.                                                    *)
(***************************************************************************)
\* n_voters of the configurations explored ranges up to MaxVoters
MaxVoters == 2
\* seeds of the random source range over 1..MaxSeed
MaxSeed == 3
\* wall-clock readings at which an election may run: 0..MaxClock
MaxClock == 1
\* calls of run_election on one Election object
MaxRuns == 2

(***************************************************************************)
(* Python values of the election parameters.  t is the Python type, i the  *)
(* number (a float is held in tenths: 25 is 2.5), s the string.            *)
(***************************************************************************)
PyInt(n) == [t |-> "int", i |-> n, s |-> ""]
PyFloat10(n) == [t |-> "float", i |-> n, s |-> ""]
PyStr(x) == [t |-> "str", i |-> 0, s |-> x]
\* an optional key that the parameter dict does not hold
Absent == [t |-> "absent", i |-> 0, s |-> ""]

\* election_parameters.get(key, default)
dict_get(v, default) == IF v.t = "absent" THEN PyInt(default) ELSE v

\* isinstance(v, int)
is_int(v) == v.t = "int"

\* isinstance(v, str)
is_str(v) == v.t = "str"

\* v > 0 and v >= 0 are defined for numbers; for a str Python raises TypeError
is_number(v) == v.t \in {"int", "float"}

Range(f) == {f[x] : x \in DOMAIN f}

Min(a, b) == IF a <= b THEN a ELSE b

Max(a, b) == IF a >= b THEN a ELSE b

\* Python's seq[:n]: the first n items, from the end for a negative n
py_slice_to(seq, n) ==
    LET len == Len(seq)
        stop == IF n >= 0 THEN Min(n, len) ELSE Max(len + n, 0)
    IN SubSeq(seq, 1, stop)

\* a dict as a function: d[k] = v, a present key overwritten
DictSet(d, k, v) == [x \in (DOMAIN d) \cup {k} |-> IF x = k THEN v ELSE d[x]]

EmptyDict == [x \in {} |-> 0]

(***************************************************************************)
(* Ballot styles and the configurations explored.                          *)
(***************************************************************************)
RaceP == [race_id |-> "P", choices |-> <<"A", "B">>]
RaceV == [race_id |-> "V", choices |-> <<"Y", "N", "X">>]

BallotStyle(kind, races) == [t |-> kind, races |-> races]

BS1 == BallotStyle("list", <<RaceP>>)
BS2 == BallotStyle("list", <<RaceP, RaceV>>)
BSEmpty == BallotStyle("list", <<>>)
BSDup == BallotStyle("list", <<RaceP, RaceP>>)
BSTuple == BallotStyle("tuple", <<RaceP>>)

Cfg(eid, bs, nv, nr, nf, nl, bl, ji) ==
    [election_id |-> eid, ballot_style |-> bs, n_voters |-> nv, n_reps |-> nr,
     n_fail |-> nf, n_leak |-> nl, ballot_id_len |-> bl, json_indent |-> ji]

\* scenario S1 of the specification, with the optional keys left out
BaseCfg == Cfg(PyStr("E1"), BS1, PyInt(2), PyInt(2), PyInt(0), PyInt(0), Absent, Absent)

\* BaseCfg with one parameter changed at a time, to legal and illegal values
Configs ==
    {[BaseCfg EXCEPT !.election_id = v] : v \in {PyStr("E1"), PyStr(""), PyInt(7)}}
    \cup {[BaseCfg EXCEPT !.ballot_style = v] : v \in {BS2, BSEmpty, BSDup, BSTuple}}
    \cup {[BaseCfg EXCEPT !.n_voters = v] :
             v \in {PyInt(n) : n \in (-1)..MaxVoters} \cup {PyFloat10(20), PyStr("2")}}
    \cup {[BaseCfg EXCEPT !.n_reps = v] :
             v \in {PyInt(n) : n \in {-2, 0, 1, 3, 4, 26, 27, 28}} \cup {PyFloat10(20)}}
    \cup {[BaseCfg EXCEPT !.n_fail = v] : v \in {PyInt(-1), PyInt(1), PyFloat10(10)}}
    \cup {[BaseCfg EXCEPT !.n_leak = v] : v \in {PyInt(-1), PyInt(1), PyFloat10(10)}}
    \cup {[BaseCfg EXCEPT !.ballot_id_len = v] :
             v \in {PyInt(32), PyInt(1), PyInt(0), PyInt(-1), PyFloat10(25), PyStr("32")}}
    \cup {[BaseCfg EXCEPT !.json_indent = v] :
             v \in {PyInt(0), PyInt(2), PyInt(-1), PyFloat10(15)}}
    \cup {[BaseCfg EXCEPT !.json_indent = PyInt(2), !.n_voters = PyInt(0)],
          [BaseCfg EXCEPT !.json_indent = PyInt(2), !.ballot_style = BSDup],
          [BaseCfg EXCEPT !.ballot_style = BS2, !.n_reps = PyInt(4)],
          [BaseCfg EXCEPT !.ballot_style = BS2, !.n_fail = PyInt(1), !.ballot_id_len = PyInt(1)]}

(***************************************************************************)
(* State.                                                                  *)
(***************************************************************************)
VARIABLES
    params,          \* election_parameters, the argument of Election(...)
    clock,           \* the wall-clock reading that a time stamp records
    rng,             \* state of the random source, seeded once per election
    sv_json_indent,  \* module sv's global setting, set by sv.set_json_indent
    phase,           \* "ctor": in __init__, "dead": __init__ raised,
                     \* "idle": constructed and no call in progress,
                     \* "run": in run_election
    pc,              \* index of the next statement group of the running method
    loop,            \* iterations done of the loop of that statement group
    runs,            \* calls of run_election made so far
    err,             \* exception raised by the last call, "none" if none
    el,              \* scalar attributes of the Election object
    races,           \* self.races
    race_ids,        \* self.race_ids
    voters,          \* self.voters
    voter_ids,       \* self.voter_ids
    cast_votes,      \* self.cast_votes
    row_list,        \* self.server.row_list
    sdb,             \* self.server.sdb: column 0 of the server grid
    pass_rec,        \* the pass records of the mix, by pass label
    tally,           \* the tally computed by sv_tally.compute_tally
    held,            \* history: the choice number of the vote that each slot
                     \* holds: .cast by <<race, position>> of cast_votes, .sdb
                     \* by <<race, position>> of column 0, .pass by
                     \* <<pass, race, position>> of the output columns
    sbb,             \* self.sbb: the entries posted, in order
    closed,          \* self.sbb is closed
    completed        \* history: the <<call, statement group>> pairs completed

vars == <<params, clock, rng, sv_json_indent, phase, pc, loop, runs, err, el,
          races, race_ids, voters, voter_ids, cast_votes, row_list, sdb,
          pass_rec, tally, held, sbb, closed, completed>>

\* the variables that hold the Election object's data
obj == <<el, races, race_ids, voters, voter_ids, cast_votes, row_list, sdb,
         pass_rec, tally, held>>

(***************************************************************************)
(* The random source: a generator seeded once per election.  Every draw    *)
(* advances the state; a draw below n is the state reduced modulo n.       *)
(***************************************************************************)
RngMod == 101
RngMul == 3

rng_step(s) == (RngMul * s) % RngMod

RECURSIVE rng_after(_, _)
\* the state after n draws
rng_after(s, n) == IF n = 0 THEN s ELSE rng_after(rng_step(s), n - 1)

\* the value below n of the draw made after i earlier draws
rng_draw(s, i, n) == rng_after(s, i + 1) % n

(***************************************************************************)
(* sv_sbb.SBB: post appends one labelled entry; time is the clock reading  *)
(* or -1 when the time stamp is suppressed.                                *)
(***************************************************************************)
sbb_post(board, label, payload, time_stamp) ==
    Append(board, [label |-> label,
                   time |-> IF time_stamp THEN clock ELSE -1,
                   payload |-> payload])

Labels(board) == [n \in 1..Len(board) |-> board[n].label]

(***************************************************************************)
(* sv_race.Race: the race modulus is the smallest prime that is at least   *)
(* the number of encodings; choice number c (from 1) is encoded as c - 1.  *)
(***************************************************************************)
IsPrime(n) == n >= 2 /\ \A d \in 2..(n - 1) : n % d # 0

RECURSIVE next_prime(_)
next_prime(n) == IF IsPrime(n) THEN n ELSE next_prime(n + 1)

Race(race_id, choices) ==
    [race_id |-> race_id, choices |-> choices, race_modulus |-> next_prime(Len(choices))]

encode(c) == c - 1

\* decode(x): the choice number, 0 when x encodes no choice
decode(race, x) == IF x < Len(race.choices) THEN x + 1 ELSE 0

(***************************************************************************)
(* Names.                                                                  *)
(***************************************************************************)
UpperLetters ==
    <<"A", "B", "C", "D", "E", "F", "G", "H", "I", "J", "K", "L", "M",
      "N", "O", "P", "Q", "R", "S", "T", "U", "V", "W", "X", "Y", "Z">>

LowerLetters ==
    <<"a", "b", "c", "d", "e", "f", "g", "h", "i", "j", "k", "l", "m",
      "n", "o", "p", "q", "r", "s", "t", "u", "v", "w", "x", "y", "z">>

\* sv.p_list(n): the position names p0 .. p(n-1), held as their indices
p_list(n) == [x \in 1..n |-> x - 1]

\* k_list as n_reps copies of one letter
k_list_repeated(n_reps) ==
    [j \in 1..Len(py_slice_to(UpperLetters, n_reps)) |-> UpperLetters[1]]

\* "ABCDEFGHIJKLMNOPQRSTUVWXYZ"[:n_reps]
k_list(n_reps) == py_slice_to(UpperLetters, n_reps)

\* the rows of the server grid for n_fail and n_leak
server_rows(n_fail, n_leak) == 1 + n_fail + n_leak

(***************************************************************************)
(* Election.__init__, lines 49-94: read, check and save the parameters.    *)
(***************************************************************************)
election_id_ok(v) == is_str(v) /\ v.s # ""

ballot_style_ok(bs) == bs.t = "list" /\ Len(bs.races) > 0

n_voters_ok(v) == is_int(v) /\ v.i > 0

\* the check of n_reps without its upper limit
n_reps_ok_unbounded(v) == is_int(v) /\ 0 < v.i /\ v.i % 2 = 0

n_reps_ok(v) == is_int(v) /\ 0 < v.i /\ v.i <= 26 /\ v.i % 2 = 0

n_fail_ok(v) == is_int(v) /\ v.i >= 0

\* the exception raised by lines 65-93 for parameters p, "none" if none
check_parameters(p) ==
    LET bl == dict_get(p.ballot_id_len, 32) IN
    IF ~election_id_ok(p.election_id) THEN "AssertionError"
    ELSE IF ~ballot_style_ok(p.ballot_style) THEN "AssertionError"
    ELSE IF ~n_voters_ok(p.n_voters) THEN "AssertionError"
    ELSE IF ~n_reps_ok(p.n_reps) THEN "AssertionError"
    ELSE IF ~n_fail_ok(p.n_fail) THEN "AssertionError"
    ELSE IF ~n_fail_ok(p.n_leak) THEN "AssertionError"
    ELSE IF ~is_number(bl) THEN "TypeError"
    ELSE IF ~(bl.i > 0) THEN "AssertionError"
    ELSE "none"

\* the attributes lines 49-94 save
saved_parameters(p) ==
    [election_id |-> p.election_id.s,
     ballot_style |-> p.ballot_style.races,
     n_voters |-> p.n_voters.i,
     p_list |-> p_list(p.n_voters.i),
     n_reps |-> p.n_reps.i,
     k_list |-> k_list(p.n_reps.i),
     n_fail |-> p.n_fail.i,
     n_leak |-> p.n_leak.i,
     ballot_id_len |-> dict_get(p.ballot_id_len, 32),
     json_indent |-> dict_get(p.json_indent, 0)]

\* the statement groups of __init__, in the order of lines 49-138
ctor_steps ==
    <<"check_parameters", "sbb_start", "setup_races", "setup_voters",
      "server", "setup_keys", "setup_finished">>

\* run_election posting the receipts before the commitments
run_steps_receipts_first ==
    <<"initialize_cast_votes", "cast_vote", "distribute_cast_votes",
      "post_voter_receipts", "post_cast_vote_commitments", "mix",
      "compute_tally", "post_tally", "print_tally", "make_proof",
      "post_done", "close">>

\* run_election posting election:done. before the mix
run_steps_done_early ==
    <<"initialize_cast_votes", "cast_vote", "distribute_cast_votes",
      "post_cast_vote_commitments", "post_voter_receipts", "post_done", "mix",
      "compute_tally", "post_tally", "print_tally", "make_proof", "close">>

\* run_election closing the board before it posts election:done.
run_steps_close_first ==
    <<"initialize_cast_votes", "cast_vote", "distribute_cast_votes",
      "post_cast_vote_commitments", "post_voter_receipts", "mix",
      "compute_tally", "post_tally", "print_tally", "make_proof",
      "close", "post_done">>

\* run_election making the proof before it computes and posts the tally
run_steps_proof_before_tally ==
    <<"initialize_cast_votes", "cast_vote", "distribute_cast_votes",
      "post_cast_vote_commitments", "post_voter_receipts", "mix",
      "make_proof", "compute_tally", "post_tally", "print_tally",
      "post_done", "close">>

\* the statement groups of run_election, in the order of lines 143-173
run_steps ==
    <<"initialize_cast_votes", "cast_vote", "distribute_cast_votes",
      "post_cast_vote_commitments", "post_voter_receipts", "mix",
      "compute_tally", "post_tally", "print_tally", "make_proof",
      "post_done", "close">>

steps == IF phase = "ctor" THEN ctor_steps ELSE run_steps

\* the statement group about to execute
at(name) ==
    /\ phase \in {"ctor", "run"}
    /\ pc \in 1..Len(steps)
    /\ steps[pc] = name

\* the call number of the running method: 0 for __init__
call == IF phase = "ctor" THEN 0 ELSE runs

\* the statement group completes: control moves to the next one, and the
\* method returns after the last
advance ==
    /\ completed' = completed \cup {<<call, steps[pc]>>}
    /\ loop' = 0
    /\ IF pc = Len(steps)
       THEN phase' = "idle" /\ pc' = 0
       ELSE phase' = phase /\ pc' = pc + 1
    /\ err' = err

\* one iteration of the statement group's loop completes
iterate ==
    /\ loop' = loop + 1
    /\ UNCHANGED <<phase, pc, err, completed>>

\* exception e propagates out of the running method: nothing in
\* sv_election.py catches it
raise(e) ==
    /\ err' = e
    /\ phase' = IF phase = "ctor" THEN "dead" ELSE "idle"
    /\ pc' = 0
    /\ loop' = 0
    /\ UNCHANGED completed

\* self.sbb.post(...) on a closed board raises and leaves the board as it is
post(label, payload, time_stamp, last) ==
    IF closed
    THEN raise("SBBClosed") /\ UNCHANGED sbb
    ELSE /\ sbb' = sbb_post(sbb, label, payload, time_stamp)
         /\ IF last THEN advance ELSE iterate

Unset == <<>>

Init ==
    /\ params \in Configs
    /\ clock \in 0..MaxClock
    /\ rng \in 1..MaxSeed
    /\ sv_json_indent = PyInt(0)
    /\ phase = "ctor"
    /\ pc = 1
    /\ loop = 0
    /\ runs = 0
    /\ err = "none"
    /\ el = Unset
    /\ races = <<>>
    /\ race_ids = <<>>
    /\ voters = <<>>
    /\ voter_ids = <<>>
    /\ cast_votes = EmptyDict
    /\ row_list = <<>>
    /\ sdb = EmptyDict
    /\ pass_rec = EmptyDict
    /\ tally = EmptyDict
    /\ held = [cast |-> EmptyDict, sdb |-> EmptyDict, pass |-> EmptyDict]
    /\ sbb = <<>>
    /\ closed = FALSE
    /\ completed = {}

\* lines 49-94
CheckParameters ==
    /\ at("check_parameters")
    /\ sv_json_indent' = dict_get(params.json_indent, 0)
    /\ LET e == check_parameters(params) IN
       IF e = "none"
       THEN el' = saved_parameters(params) /\ advance
       ELSE el' = el /\ raise(e)
    /\ UNCHANGED <<params, clock, rng, runs, races, race_ids, voters, voter_ids,
                   cast_votes, row_list, sdb, pass_rec, tally, held, sbb, closed>>

\* lines 119-126: start the bulletin board and post setup:start
SbbStart ==
    /\ at("sbb_start")
    /\ post("setup:start", [election_id |-> el.election_id], TRUE, TRUE)
    /\ UNCHANGED <<params, clock, rng, sv_json_indent, runs, closed>>
    /\ UNCHANGED obj

\* lines 128-130 and setup_races, lines 191-203
race_ids_of(ballot_style) == [n \in 1..Len(ballot_style) |-> ballot_style[n].race_id]

race_ids_distinct(ids) == Len(ids) = Cardinality(Range(ids))

races_of(ballot_style) ==
    [n \in 1..Len(ballot_style) |->
        Race(ballot_style[n].race_id, ballot_style[n].choices)]

race_dict(rs) ==
    [id \in {rs[n].race_id : n \in 1..Len(rs)} |->
        LET r == CHOOSE r \in Range(rs) : r.race_id = id
        IN [choices |-> r.choices, race_modulus |-> r.race_modulus]]

SetupRaces ==
    /\ at("setup_races")
    /\ race_ids' = race_ids_of(el.ballot_style)
    /\ IF race_ids_distinct(race_ids_of(el.ballot_style))
       THEN /\ races' = races_of(el.ballot_style)
            /\ post("setup:races",
                    [ballot_style_race_dict |-> race_dict(races_of(el.ballot_style))],
                    FALSE, TRUE)
       ELSE /\ races' = <<>>
            /\ raise("AssertionError")
            /\ UNCHANGED sbb
    /\ UNCHANGED <<params, clock, rng, sv_json_indent, runs, el, voters, voter_ids,
                   cast_votes, row_list, sdb, pass_rec, tally, held, closed>>

\* lines 131-133 and setup_voters, lines 205-221
Voter(vid, px) == [voter_id |-> vid, px |-> px, receipts |-> EmptyDict]

voter_id(n) == <<"voter:", n>>

\* setup_voters giving every voter the first position of p_list
SetupVoters_first_position ==
    /\ at("setup_voters")
    /\ IF n_voters_ok(PyInt(el.n_voters))
       THEN /\ voter_ids' = [n \in 1..el.n_voters |-> voter_id(n - 1)]
            /\ voters' = [n \in 1..el.n_voters |-> Voter(voter_id(n - 1), el.p_list[1])]
            /\ post("setup:voters",
                    [n_voters |-> el.n_voters, ballot_id_len |-> el.ballot_id_len],
                    FALSE, TRUE)
       ELSE /\ raise("AssertionError")
            /\ UNCHANGED <<voter_ids, voters, sbb>>
    /\ UNCHANGED <<params, clock, rng, sv_json_indent, runs, el, races, race_ids,
                   cast_votes, row_list, sdb, pass_rec, tally, held, closed>>

SetupVoters ==
    /\ at("setup_voters")
    /\ IF n_voters_ok(PyInt(el.n_voters))
       THEN /\ voter_ids' = [n \in 1..el.n_voters |-> voter_id(n - 1)]
            /\ voters' = [n \in 1..el.n_voters |-> Voter(voter_id(n - 1), el.p_list[n])]
            /\ post("setup:voters",
                    [n_voters |-> el.n_voters, ballot_id_len |-> el.ballot_id_len],
                    FALSE, TRUE)
       ELSE /\ raise("AssertionError")
            /\ UNCHANGED <<voter_ids, voters, sbb>>
    /\ UNCHANGED <<params, clock, rng, sv_json_indent, runs, el, races, race_ids,
                   cast_votes, row_list, sdb, pass_rec, tally, held, closed>>

\* lines 134-136: sv_server.Server(self, n_fail, n_leak) names the rows and
\* builds sdb[race_id][row][column][field] = dict(); column 0 takes the cast
\* votes, and the output of each pass is held in pass_rec
CastFields == {"ballot_id", "x", "u", "v", "ru", "rv", "cu", "cv"}

empty_cell == [f \in CastFields |-> EmptyDict]

\* the columns of the grid: 0 .. GridCols-1
GridCols == 2

Server(ids, n_fail, n_leak) ==
    LET rows == py_slice_to(LowerLetters, server_rows(n_fail, n_leak))
    IN [row_list |-> rows,
        sdb |-> [id \in Range(ids) |->
                    [i \in Range(rows) |-> [c \in 0..(GridCols - 1) |-> empty_cell]]]]

ServerSetup ==
    /\ at("server")
    /\ cast_votes' = EmptyDict
    /\ row_list' = Server(race_ids, el.n_fail, el.n_leak).row_list
    /\ sdb' = Server(race_ids, el.n_fail, el.n_leak).sdb
    /\ advance
    /\ UNCHANGED <<params, clock, rng, sv_json_indent, runs, el, races, race_ids,
                   voters, voter_ids, pass_rec, tally, held, sbb, closed>>

\* line 137 and setup_keys, lines 246-251: pass
SetupKeys ==
    /\ at("setup_keys")
    /\ advance
    /\ UNCHANGED <<params, clock, rng, sv_json_indent, runs, sbb, closed>>
    /\ UNCHANGED obj

\* line 138
SetupFinished ==
    /\ at("setup_finished")
    /\ post("setup:finished", <<>>, TRUE, TRUE)
    /\ UNCHANGED <<params, clock, rng, sv_json_indent, runs, closed>>
    /\ UNCHANGED obj

\* run_election starting a new bulletin board for its postings
RunElection_new_board ==
    /\ phase = "idle"
    /\ err = "none"
    /\ runs < MaxRuns
    /\ phase' = "run"
    /\ pc' = 1
    /\ loop' = 0
    /\ runs' = runs + 1
    /\ err' = "none"
    /\ sbb' = <<>>
    /\ UNCHANGED <<params, clock, rng, sv_json_indent, closed, completed>>
    /\ UNCHANGED obj

\* the caller calls run_election on the constructed Election: once, and
\* again after a call that returned without an exception
RunElection ==
    /\ phase = "idle"
    /\ err = "none"
    /\ runs < MaxRuns
    /\ phase' = "run"
    /\ pc' = 1
    /\ loop' = 0
    /\ runs' = runs + 1
    /\ err' = "none"
    /\ UNCHANGED <<params, clock, rng, sv_json_indent, sbb, closed, completed>>
    /\ UNCHANGED obj

\* line 143 and initialize_cast_votes, lines 234-244
initialize_cast_votes(ids, ps) == [id \in Range(ids) |-> [px \in Range(ps) |-> EmptyDict]]

InitializeCastVotes ==
    /\ at("initialize_cast_votes")
    /\ cast_votes' = initialize_cast_votes(race_ids, el.p_list)
    /\ held' = [held EXCEPT !.cast = EmptyDict]
    /\ advance
    /\ UNCHANGED <<params, clock, rng, sv_json_indent, runs, el, races, race_ids,
                   voters, voter_ids, row_list, sdb, pass_rec, tally, sbb, closed>>

(***************************************************************************)
(* sv_voter.Voter.cast_vote, called at lines 146-148 for every voter and   *)
(* race: the voter splits the encoded choice into u and v, commits to      *)
(* both, writes one record per row and keeps a receipt.                    *)
(***************************************************************************)
\* randomizers are drawn from 0 .. RandSpace-1
RandSpace == 4
\* ballot ids of length n are drawn from 2^n values, at most 2^IdBits
IdBits == 3

id_space(n) == 2 ^ Min(n, IdBits)

\* commit(value, r) = H(value || r), H injective
commit(value, r) == [h_value |-> value, h_r |-> r]

\* the record the voter makes for choice number c of a race with modulus m,
\* with the draws taken from random state s
cast_record(c, m, id_len, s) ==
    LET u == rng_draw(s, 1, m)
        v == (encode(c) - u) % m
        ru == rng_draw(s, 2, RandSpace)
        rv == rng_draw(s, 3, RandSpace)
    IN [ballot_id |-> [len |-> id_len, val |-> rng_draw(s, 0, id_space(id_len))],
        x |-> (u + v) % m, u |-> u, v |-> v, ru |-> ru, rv |-> rv,
        cu |-> commit(u, ru), cv |-> commit(v, rv)]

receipt_of(race_id, rec) == [race_id |-> race_id, cu |-> rec.cu, cv |-> rec.cv]

n_races == Len(races)

\* the voter and the race of iteration number loop of lines 146-148
cast_voter == (loop \div n_races) + 1

cast_race == (loop % n_races) + 1

CastVote ==
    /\ at("cast_vote")
    /\ LET vi == cast_voter
           race == races[cast_race]
           px == voters[vi].px
           last == loop + 1 = Len(voters) * n_races
       IN \/ /\ is_int(el.ballot_id_len)
             /\ \E c \in 1..Len(race.choices) :
                  LET rec == cast_record(c, race.race_modulus, el.ballot_id_len.i, rng)
                  IN /\ cast_votes' = [cast_votes EXCEPT ![race.race_id][px] =
                                          [i \in Range(row_list) |-> rec]]
                     /\ voters' = [voters EXCEPT ![vi].receipts =
                                      DictSet(@, rec.ballot_id, receipt_of(race.race_id, rec))]
                     /\ held' = [held EXCEPT !.cast = DictSet(@, <<race.race_id, px>>, c)]
             /\ rng' = rng_after(rng, 4)
             /\ IF last THEN advance ELSE iterate
          \/ \* a ballot id of a length that is no integer cannot be drawn
             /\ ~is_int(el.ballot_id_len)
             /\ raise("TypeError")
             /\ UNCHANGED <<cast_votes, voters, held, rng>>
          \/ \* the entropy source fails
             /\ raise("RngFailure")
             /\ UNCHANGED <<cast_votes, voters, held, rng>>
    /\ UNCHANGED <<params, clock, sv_json_indent, runs, el, races, race_ids,
                   voter_ids, row_list, sdb, pass_rec, tally, sbb, closed>>

(***************************************************************************)
(* Cast-vote generation parallelized across voters: the calls of lines     *)
(* 146-148 are taken in any order.  Call number k (from 0, in the order of *)
(* the two loops) keeps its own draws, and loop holds the set of the calls *)
(* that are done, as a bit set.                                            *)
(***************************************************************************)
n_casts == Len(voters) * n_races

cast_done(k) == (loop \div (2 ^ k)) % 2 = 1

CastVoteAnyOrder ==
    /\ at("cast_vote")
    /\ \/ /\ is_int(el.ballot_id_len)
          /\ \E k \in 0..(n_casts - 1) :
               /\ ~cast_done(k)
               /\ LET vi == (k \div n_races) + 1
                      race == races[(k % n_races) + 1]
                      px == voters[vi].px
                      last == loop + (2 ^ k) = (2 ^ n_casts) - 1
                  IN /\ \E c \in 1..Len(race.choices) :
                          LET rec == cast_record(c, race.race_modulus,
                                                 el.ballot_id_len.i, rng_after(rng, 4 * k))
                          IN /\ cast_votes' = [cast_votes EXCEPT ![race.race_id][px] =
                                                  [i \in Range(row_list) |-> rec]]
                             /\ voters' = [voters EXCEPT ![vi].receipts =
                                              DictSet(@, rec.ballot_id,
                                                      receipt_of(race.race_id, rec))]
                             /\ held' = [held EXCEPT !.cast =
                                            DictSet(@, <<race.race_id, px>>, c)]
                     /\ IF last
                        THEN rng' = rng_after(rng, 4 * n_casts) /\ advance
                        ELSE /\ rng' = rng
                             /\ loop' = loop + (2 ^ k)
                             /\ UNCHANGED <<phase, pc, err, completed>>
       \/ \* a ballot id of a length that is no integer cannot be drawn
          /\ ~is_int(el.ballot_id_len)
          /\ raise("TypeError")
          /\ UNCHANGED <<cast_votes, voters, held, rng>>
       \/ \* the entropy source fails
          /\ raise("RngFailure")
          /\ UNCHANGED <<cast_votes, voters, held, rng>>
    /\ UNCHANGED <<params, clock, sv_json_indent, runs, el, races, race_ids,
                   voter_ids, row_list, sdb, pass_rec, tally, sbb, closed>>

(***************************************************************************)
(* line 151 and distribute_cast_votes, lines 253-271                       *)
(***************************************************************************)
\* every vote that lines 258 and 283-288 read is there
votes_present(cvs, ids, ps, rows) ==
    \A id \in Range(ids) : \A px \in Range(ps) : \A i \in Range(rows) :
        /\ id \in DOMAIN cvs
        /\ px \in DOMAIN cvs[id]
        /\ i \in DOMAIN cvs[id][px]

\* lines 263-271 reading the vote of the first position for every position
distribute_cell_first_position(cell, cvs, id, i, ps) ==
    [f \in CastFields |->
        [px \in (DOMAIN cell[f]) \cup Range(ps) |->
            IF px \in Range(ps) THEN cvs[id][ps[1]][i][f] ELSE cell[f][px]]]

\* line 266 saving vote['x'] as the share u
distribute_cell_x_as_u(cell, cvs, id, i, ps) ==
    [f \in CastFields |->
        [px \in (DOMAIN cell[f]) \cup Range(ps) |->
            IF px \in Range(ps)
            THEN cvs[id][px][i][IF f = "u" THEN "x" ELSE f]
            ELSE cell[f][px]]]

\* column 0 of the cell of race id and row i after lines 263-271 for every px
distribute_cell(cell, cvs, id, i, ps) ==
    [f \in CastFields |->
        [px \in (DOMAIN cell[f]) \cup Range(ps) |->
            IF px \in Range(ps) THEN cvs[id][px][i][f] ELSE cell[f][px]]]

\* lines 262-271 writing the votes into every column of the grid
distribute_cast_votes_every_column(db, cvs, ids, ps, rows) ==
    [id \in DOMAIN db |->
        [i \in DOMAIN db[id] |->
            [c \in DOMAIN db[id][i] |->
                IF id \in Range(ids) /\ i \in Range(rows)
                THEN distribute_cell(db[id][i][c], cvs, id, i, ps)
                ELSE db[id][i][c]]]]

distribute_cast_votes(db, cvs, ids, ps, rows) ==
    [id \in DOMAIN db |->
        [i \in DOMAIN db[id] |->
            [c \in DOMAIN db[id][i] |->
                IF id \in Range(ids) /\ i \in Range(rows) /\ c = 0
                THEN distribute_cell(db[id][i][c], cvs, id, i, ps)
                ELSE db[id][i][c]]]]

DistributeCastVotes ==
    /\ at("distribute_cast_votes")
    /\ IF votes_present(cast_votes, race_ids, el.p_list, row_list)
       THEN /\ sdb' = distribute_cast_votes(sdb, cast_votes, race_ids, el.p_list, row_list)
            /\ held' = [held EXCEPT !.sdb =
                            [sl \in (DOMAIN @) \cup (Range(race_ids) \X Range(el.p_list)) |->
                                IF sl \in DOMAIN held.cast THEN held.cast[sl] ELSE @[sl]]]
            /\ advance
       ELSE \* line 258 raises at the first vote that is missing
            /\ raise("KeyError")
            /\ UNCHANGED <<sdb, held>>
    /\ UNCHANGED <<params, clock, rng, sv_json_indent, runs, el, races, race_ids,
                   voters, voter_ids, cast_votes, row_list, pass_rec, tally,
                   sbb, closed>>

(***************************************************************************)
(* line 154 and post_cast_vote_commitments, lines 273-291                  *)
(***************************************************************************)
\* lines 283-288 copying the share u as well
cast_vote_dict_with_share(cvs, ids, ps, rows) ==
    [id \in Range(ids) |->
        [px \in Range(ps) |->
            [i \in Range(rows) |->
                [ballot_id |-> cvs[id][px][i].ballot_id,
                 u |-> cvs[id][px][i].u,
                 cu |-> cvs[id][px][i].cu,
                 cv |-> cvs[id][px][i].cv]]]]

cast_vote_dict(cvs, ids, ps, rows) ==
    [id \in Range(ids) |->
        [px \in Range(ps) |->
            [i \in Range(rows) |->
                [ballot_id |-> cvs[id][px][i].ballot_id,
                 cu |-> cvs[id][px][i].cu,
                 cv |-> cvs[id][px][i].cv]]]]

PostCastVoteCommitments ==
    /\ at("post_cast_vote_commitments")
    /\ IF votes_present(cast_votes, race_ids, el.p_list, row_list)
       THEN post("casting:votes",
                 [cast_vote_dict |-> cast_vote_dict(cast_votes, race_ids, el.p_list, row_list)],
                 FALSE, TRUE)
       ELSE raise("KeyError") /\ UNCHANGED sbb
    /\ UNCHANGED <<params, clock, rng, sv_json_indent, runs, closed>>
    /\ UNCHANGED obj

(***************************************************************************)
(* line 157 and post_voter_receipts, lines 293-301                         *)
(***************************************************************************)
RECURSIVE receipt_dict(_, _)
\* receipts after the first n voters: a later voter's entry replaces an
\* earlier one under the same ballot id
receipt_dict(vs, n) ==
    IF n = 0 THEN EmptyDict
    ELSE LET before == receipt_dict(vs, n - 1)
             own == vs[n].receipts
         IN [b \in (DOMAIN before) \cup (DOMAIN own) |->
                IF b \in DOMAIN own THEN own[b] ELSE before[b]]

\* post_voter_receipts emptying each voter's receipts once they are posted
PostVoterReceipts_emptying ==
    /\ at("post_voter_receipts")
    /\ post("casting:receipts",
            [receipt_dict |-> receipt_dict(voters, Len(voters))], FALSE, TRUE)
    /\ voters' = [n \in DOMAIN voters |-> [voters[n] EXCEPT !.receipts = EmptyDict]]
    /\ UNCHANGED <<params, clock, rng, sv_json_indent, runs, closed>>
    /\ UNCHANGED <<el, races, race_ids, voter_ids, cast_votes, row_list, sdb,
                   pass_rec, tally, held>>

PostVoterReceipts ==
    /\ at("post_voter_receipts")
    /\ post("casting:receipts",
            [receipt_dict |-> receipt_dict(voters, Len(voters))], FALSE, TRUE)
    /\ UNCHANGED <<params, clock, rng, sv_json_indent, runs, closed>>
    /\ UNCHANGED obj

(***************************************************************************)
(* line 160, sv_server.Server.mix: one pass per label of k_list.  A pass   *)
(* draws a permutation of the positions per race, re-randomizes the shares  *)
(* of column 0 per row and position (u' = u + d, v' = v - d), commits to    *)
(* the new shares and stores the result at the permuted position.           *)
(***************************************************************************)
swap(a, x, y) == [a EXCEPT ![x] = a[y], ![y] = a[x]]

RECURSIVE shuffle(_, _, _, _)
\* the Fisher-Yates shuffle of a[0..j]: the draws follow the off earlier ones
shuffle(a, j, s, off) ==
    IF j <= 0 THEN a
    ELSE shuffle(swap(a, j, rng_draw(s, off, j + 1)), j - 1, s, off + 1)

\* a uniform permutation of the positions 0..n-1, position -> position
draw_permutation(n, s, off) == shuffle([x \in 0..(n - 1) |-> x], n - 1, s, off)

\* draws of one race in one pass: the permutation, then d, ru', rv' per row
\* and position
draws_per_race(n, rows) == (n - 1) + 3 * n * rows

\* the re-randomized cell of the share pair (u, v) with the draws d, ru, rv
rerandomize(u, v, d, ru, rv, m) ==
    LET u2 == (u + d) % m
        v2 == (v - d) % m
    IN [u |-> u2, v |-> v2, ru |-> ru, rv |-> rv,
        cu |-> commit(u2, ru), cv |-> commit(v2, rv)]

\* the pass record of race number r (from 1) in a pass drawing from state s
mix_race(r, s) ==
    LET race == races[r]
        m == race.race_modulus
        n == Len(el.p_list)
        nrows == Len(row_list)
        base == (r - 1) * draws_per_race(n, nrows)
        perm == draw_permutation(n, s, base)
        at_draw(j, px, f) == base + (n - 1) + 3 * ((j - 1) * n + px) + f
        inv(q) == CHOOSE px \in 0..(n - 1) : perm[px] = q
        delta == [i \in Range(row_list) |->
                    LET j == CHOOSE j \in 1..nrows : row_list[j] = i
                    IN [px \in 0..(n - 1) |-> rng_draw(s, at_draw(j, px, 0), m)]]
        out == [i \in Range(row_list) |->
                  LET j == CHOOSE j \in 1..nrows : row_list[j] = i
                      col0 == sdb[race.race_id][i][0]
                  IN [q \in 0..(n - 1) |->
                        rerandomize(col0.u[inv(q)], col0.v[inv(q)], delta[i][inv(q)],
                                    rng_draw(s, at_draw(j, inv(q), 1), RandSpace),
                                    rng_draw(s, at_draw(j, inv(q), 2), RandSpace), m)]]
    IN [perm |-> perm, delta |-> delta, out |-> out]

mix_pass(s) == [id \in Range(race_ids) |->
                  mix_race(CHOOSE r \in 1..Len(races) : races[r].race_id = id, s)]

\* what a mix:* record shows of a pass: the commitments of its output column
pass_commitments(rec) ==
    [id \in DOMAIN rec |->
        [i \in DOMAIN rec[id].out |->
            [q \in DOMAIN rec[id].out[i] |->
                [cu |-> rec[id].out[i][q].cu, cv |-> rec[id].out[i][q].cv]]]]

Mix ==
    /\ at("mix")
    /\ LET k == el.k_list[loop + 1]
           rec == mix_pass(rng)
           last == loop + 1 = Len(el.k_list)
       IN \/ /\ pass_rec' = DictSet(pass_rec, k, rec)
             /\ held' = [held EXCEPT !.pass =
                             [sl \in (DOMAIN @) \cup
                                     ({k} \X Range(race_ids) \X Range(el.p_list)) |->
                                 IF sl[1] = k
                                 THEN held.sdb[<<sl[2],
                                          CHOOSE px \in Range(el.p_list) :
                                              rec[sl[2]].perm[px] = sl[3]>>]
                                 ELSE @[sl]]]
             /\ rng' = rng_after(rng, Len(races) * draws_per_race(Len(el.p_list), Len(row_list)))
             /\ post("mix:pass", [k |-> k, commitments |-> pass_commitments(rec)],
                     TRUE, last)
          \/ \* the entropy source fails
             /\ raise("RngFailure")
             /\ UNCHANGED <<pass_rec, held, rng, sbb>>
    /\ UNCHANGED <<params, clock, sv_json_indent, runs, el, races, race_ids, voters,
                   voter_ids, cast_votes, row_list, sdb, tally, closed>>

(***************************************************************************)
(* The cut-and-choose split of sv_prover: the first half of k_list is the   *)
(* input-comparison list, the second half the output-production list.       *)
(***************************************************************************)
icl(ks) == SubSeq(ks, 1, Len(ks) \div 2)

opl(ks) == SubSeq(ks, (Len(ks) \div 2) + 1, Len(ks))

(***************************************************************************)
(* lines 163-165, sv_tally: per race and OPL pass, count the decoded        *)
(* choices (u' + v') mod m of the output column; the passes must agree.     *)
(***************************************************************************)
\* per-choice totals of race r in the output column of pass record rec
pass_totals(race, rec) ==
    LET col == rec[race.race_id].out[row_list[1]]
    IN [c \in 1..Len(race.choices) |->
          Cardinality({q \in DOMAIN col :
              decode(race, (col[q].u + col[q].v) % race.race_modulus) = c})]

tally_consistent ==
    \A r \in Range(races) : \A k1, k2 \in Range(opl(el.k_list)) :
        pass_totals(r, pass_rec[k1]) = pass_totals(r, pass_rec[k2])

compute_tally ==
    [id \in Range(race_ids) |->
        LET r == CHOOSE r \in Range(races) : r.race_id = id
        IN pass_totals(r, pass_rec[opl(el.k_list)[1]])]

ComputeTally ==
    /\ at("compute_tally")
    /\ IF tally_consistent
       THEN tally' = compute_tally /\ advance
       ELSE raise("TallyInconsistent") /\ UNCHANGED tally
    /\ UNCHANGED <<params, clock, rng, sv_json_indent, runs, el, races, race_ids,
                   voters, voter_ids, cast_votes, row_list, sdb, pass_rec, held,
                   sbb, closed>>

PostTally ==
    /\ at("post_tally")
    /\ post("tally", [tally |-> tally], TRUE, TRUE)
    /\ UNCHANGED <<params, clock, rng, sv_json_indent, runs, closed>>
    /\ UNCHANGED obj

\* sv_tally.print_tally writes the tally to the console
PrintTally ==
    /\ at("print_tally")
    /\ advance
    /\ UNCHANGED <<params, clock, rng, sv_json_indent, runs, sbb, closed>>
    /\ UNCHANGED obj

(***************************************************************************)
(* line 168, sv_prover.make_proof: for the ICL passes the permutation, the  *)
(* deltas and the openings of column 0; for the OPL passes the openings of  *)
(* the output column.                                                       *)
(***************************************************************************)
opening(cell) == [u |-> cell.u, v |-> cell.v, ru |-> cell.ru, rv |-> cell.rv]

input_openings ==
    [id \in Range(race_ids) |->
        [i \in Range(row_list) |->
            [px \in Range(el.p_list) |->
                opening([f \in {"u", "v", "ru", "rv"} |-> sdb[id][i][0][f][px]])]]]

output_openings(rec) ==
    [id \in DOMAIN rec |->
        [i \in DOMAIN rec[id].out |->
            [q \in DOMAIN rec[id].out[i] |-> opening(rec[id].out[i][q])]]]

proof_icl ==
    [k \in Range(icl(el.k_list)) |->
        [perm |-> [id \in Range(race_ids) |-> pass_rec[k][id].perm],
         delta |-> [id \in Range(race_ids) |-> pass_rec[k][id].delta],
         input_openings |-> input_openings]]

proof_opl ==
    [k \in Range(opl(el.k_list)) |->
        [output_openings |-> output_openings(pass_rec[k])]]

MakeProof ==
    /\ at("make_proof")
    /\ IF loop = 0
       THEN post("proof:icl", proof_icl, TRUE, FALSE)
       ELSE post("proof:opl", proof_opl, TRUE, TRUE)
    /\ UNCHANGED <<params, clock, rng, sv_json_indent, runs, closed>>
    /\ UNCHANGED obj

\* lines 171-172
PostDone ==
    /\ at("post_done")
    /\ post("election:done.", [election_id |-> el.election_id], TRUE, TRUE)
    /\ UNCHANGED <<params, clock, rng, sv_json_indent, runs, closed>>
    /\ UNCHANGED obj

\* line 173: sv_sbb.SBB.close
Close ==
    /\ at("close")
    /\ closed' = TRUE
    /\ advance
    /\ UNCHANGED <<params, clock, rng, sv_json_indent, runs, sbb>>
    /\ UNCHANGED obj

Next ==
    \/ CheckParameters
    \/ SbbStart
    \/ SetupRaces
    \/ SetupVoters
    \/ ServerSetup
    \/ SetupKeys
    \/ SetupFinished
    \/ RunElection
    \/ InitializeCastVotes
    \/ CastVote
    \/ DistributeCastVotes
    \/ PostCastVoteCommitments
    \/ PostVoterReceipts
    \/ Mix
    \/ ComputeTally
    \/ PostTally
    \/ PrintTally
    \/ MakeProof
    \/ PostDone
    \/ Close

Spec == Init /\ [][Next]_vars

\* the election constructed and run once, with the votes cast in any order
RunElectionOnce == runs = 0 /\ RunElection

NextAnyOrder ==
    \/ CheckParameters
    \/ SbbStart
    \/ SetupRaces
    \/ SetupVoters
    \/ ServerSetup
    \/ SetupKeys
    \/ SetupFinished
    \/ RunElectionOnce
    \/ InitializeCastVotes
    \/ CastVoteAnyOrder
    \/ DistributeCastVotes
    \/ PostCastVoteCommitments
    \/ PostVoterReceipts
    \/ Mix
    \/ ComputeTally
    \/ PostTally
    \/ PrintTally
    \/ MakeProof
    \/ PostDone
    \/ Close

SpecAnyOrder == Init /\ [][NextAnyOrder]_vars

(***************************************************************************)
(* Properties.                                                             *)
(***************************************************************************)
\* the Election was constructed and run_election, called once, has returned
\* without an exception
CompleteRun == phase = "idle" /\ runs = 1 /\ err = "none"

\* statement group name of call number r has completed
Completed(r, name) == <<r, name>> \in completed

IsMixLabel(l) == l \in {"mix:pass"}

SetupAndCastingLabels ==
    <<"setup:start", "setup:races", "setup:voters", "setup:finished",
      "casting:votes", "casting:receipts">>

ClosingLabels == <<"tally", "proof:icl", "proof:opl", "election:done.">>

cast_count(id, c) ==
    Cardinality({px \in Range(el.p_list) : held.cast[<<id, px>>] = c})

\* the mix of the current call has produced every pass
MixDone == runs >= 1 /\ Completed(runs, "mix")

encodes(u, v, m, c) == (u + v) % m = encode(c)

modulus_of(id) == (CHOOSE r \in Range(races) : r.race_id = id).race_modulus

Discloses(k, field) ==
    \E j \in 1..Len(sbb) :
        /\ sbb[j].label \in {"proof:icl", "proof:opl"}
        /\ k \in DOMAIN sbb[j].payload
        /\ field \in DOMAIN sbb[j].payload[k]

\* C4: for no pass are both the permutation and the openings of the output
\* column on the SBB: an ICL pass shows the permutation and the input-side
\* openings and no output openings, an OPL pass shows the output openings
\* and no permutation.
C4_NoJointDisclosure ==
    \A k \in DOMAIN pass_rec :
        /\ ~(Discloses(k, "perm") /\ Discloses(k, "output_openings"))
        /\ Discloses(k, "perm") =>
              /\ k \in Range(icl(el.k_list))
              /\ Discloses(k, "input_openings")
        /\ Discloses(k, "output_openings") => k \in Range(opl(el.k_list))

\* the proof of an election of four passes is on the SBB: two permutations
\* and two output columns are disclosed
C4_Witness ==
    /\ CompleteRun
    /\ el.n_reps = 4
    /\ Cardinality({k \in DOMAIN pass_rec : Discloses(k, "perm")}) = 2
    /\ Cardinality({k \in DOMAIN pass_rec : Discloses(k, "output_openings")}) = 2

\* the parameters were accepted and saved by lines 49-94
ParametersSaved == Completed(0, "check_parameters")

\* C5: for every accepted n_reps, k_list is exactly n_reps distinct
\* upper-case letters, and the cut-and-choose split partitions it into the
\* two disjoint lists ICL and OPL of n_reps / 2 passes each.
C5_PassLabels ==
    ParametersSaved =>
        /\ Len(el.k_list) = el.n_reps
        /\ Cardinality(Range(el.k_list)) = el.n_reps
        /\ Range(el.k_list) \subseteq Range(UpperLetters)
        /\ Len(icl(el.k_list)) * 2 = el.n_reps
        /\ Len(opl(el.k_list)) * 2 = el.n_reps
        /\ Range(icl(el.k_list)) \cap Range(opl(el.k_list)) = {}
        /\ Range(icl(el.k_list)) \cup Range(opl(el.k_list)) = Range(el.k_list)

\* the largest n_reps was accepted: all 26 letters label a pass
C5_Witness ==
    /\ ParametersSaved
    /\ el.n_reps = 26
    /\ Len(icl(el.k_list)) = 13

\* the constraints of the configuration, section 6 of the specification
ConfigValid(p) ==
    /\ is_str(p.election_id) /\ p.election_id.s # ""
    /\ p.ballot_style.t = "list"
    /\ Len(p.ballot_style.races) > 0
    /\ race_ids_distinct(race_ids_of(p.ballot_style.races))
    /\ is_int(p.n_voters) /\ p.n_voters.i > 0
    /\ is_int(p.n_reps) /\ p.n_reps.i > 0 /\ p.n_reps.i % 2 = 0 /\ p.n_reps.i <= 26
    /\ is_int(p.n_fail) /\ p.n_fail.i >= 0
    /\ is_int(p.n_leak) /\ p.n_leak.i >= 0
    /\ is_int(dict_get(p.ballot_id_len, 32)) /\ dict_get(p.ballot_id_len, 32).i > 0
    /\ is_int(dict_get(p.json_indent, 0)) /\ dict_get(p.json_indent, 0).i >= 0

\* __init__ has returned an Election
Constructed == Completed(0, "setup_finished")

\* __init__ has raised
Rejected == phase = "dead"

\* C6: constructing an Election fails whenever a setup parameter violates
\* its constraint, and succeeds when all constraints hold.
C6_ConfigChecked ==
    /\ Constructed => ConfigValid(params)
    /\ Rejected => ~ConfigValid(params)

\* C7: a rejected configuration has had no effect: no SBB entry was posted
\* and the global setting of sv is as it was.
C7_FailFast ==
    Rejected => (sbb = <<>> /\ sv_json_indent = PyInt(0))

\* the SBB exists and is not closed
SbbOpen == Completed(0, "sbb_start") /\ ~closed

\* C8: when a phase of setup or of run_election has failed while the SBB is
\* open, the last entry of the SBB is election:aborted.
C8_AbortRecorded ==
    (err # "none" /\ SbbOpen) =>
        (Len(sbb) > 0 /\ sbb[Len(sbb)].label = "election:aborted")

\* the phases that come before the terminator, in __init__ and run_election
PhasesOfSetup ==
    {"check_parameters", "sbb_start", "setup_races", "setup_voters", "server",
     "setup_keys", "setup_finished"}

PhasesBeforeDone ==
    {"initialize_cast_votes", "cast_vote", "distribute_cast_votes",
     "post_cast_vote_commitments", "post_voter_receipts", "mix",
     "compute_tally", "post_tally", "make_proof"}

DonePosted == \E j \in 1..Len(sbb) : sbb[j].label = "election:done."

\* C9: election:done. is on the SBB, and the SBB is closed, only if every
\* earlier phase of setup and of one call of run_election completed; a call
\* that raised while the SBB was open leaves no election:done. on it.
C9_DoneOnlyAfterAllPhases ==
    /\ (DonePosted \/ closed) =>
          /\ \A name \in PhasesOfSetup : Completed(0, name)
          /\ \E r \in 1..runs : \A name \in PhasesBeforeDone : Completed(r, name)
    /\ closed => DonePosted
    /\ (err # "none" /\ ~closed) => ~DonePosted

\* run_election was aborted by a failure of the mix, after the commitments
\* and receipts were posted
C9_Witness ==
    /\ phase = "idle"
    /\ err = "RngFailure"
    /\ ~closed
    /\ \E j \in 1..Len(sbb) : IsMixLabel(sbb[j].label)

\* the statement groups that post on the SBB
PostingSteps ==
    {"sbb_start", "setup_races", "setup_voters", "setup_finished",
     "post_cast_vote_commitments", "post_voter_receipts", "mix", "post_tally",
     "make_proof", "post_done"}

AtPostingStep == \E name \in PostingSteps : at(name)

\* C10: once the SBB is closed every post fails with SBBClosed and leaves
\* the log unchanged; no post of the call that closes the SBB comes after
\* the close, so SBBClosed is raised only by a later call of run_election.
C10_ClosedLogFrozen ==
    /\ [][closed => (sbb' = sbb /\ closed'
                     /\ (AtPostingStep => (err' = "SBBClosed" /\ phase' = "idle")))]_vars
    /\ [](err = "SBBClosed" => (runs > 1 /\ closed))
    /\ []((phase = "idle" /\ runs = 1) => err # "SBBClosed")

\* a second call of run_election has failed at its first post
C10_Witness ==
    /\ runs = 2
    /\ err = "SBBClosed"
    /\ closed
    /\ phase = "idle"
    /\ Completed(2, "distribute_cast_votes")
    /\ ~Completed(2, "post_cast_vote_commitments")

\* C11: the SBB log is append-only and totally ordered: a step of setup or
\* of run_election, failing or not, leaves the log as it is or adds exactly
\* one labeled entry at its end; a posting step that does not raise adds
\* one; no earlier entry is changed, removed or reordered.
C11_AppendOnly ==
    [][/\ \/ sbb' = sbb
          \/ /\ AtPostingStep
             /\ Len(sbb') = Len(sbb) + 1
             /\ SubSeq(sbb', 1, Len(sbb)) = sbb
             /\ \/ sbb'[Len(sbb')].label \in Range(SetupAndCastingLabels)
                \/ sbb'[Len(sbb')].label \in Range(ClosingLabels)
                \/ IsMixLabel(sbb'[Len(sbb')].label)
       /\ (AtPostingStep /\ err' = "none") => Len(sbb') = Len(sbb) + 1]_vars

\* a complete call of run_election has added its entries after those of
\* setup, and a second call has failed without touching them
C11_Witness ==
    /\ runs = 2
    /\ phase = "idle"
    /\ err # "none"
    /\ Len(sbb) >= 11
    /\ sbb[1].label = "setup:start"
    /\ sbb[Len(sbb)].label = "election:done."

\* the log of the run that differs from this one only in the wall-clock time
\* t at which it takes place: the clock is read by SBB.post alone, for the
\* time of a time-stamped entry
at_time(board, t) ==
    [j \in 1..Len(board) |->
        IF board[j].time = -1 THEN board[j] ELSE [board[j] EXCEPT !.time = t]]

\* C12: the SBB transcript is the same in two runs with the same
\* configuration and the same seed that take place at different wall-clock
\* times: no posted entry differs between the two runs.
C12_TranscriptReproducible ==
    \A t \in 0..MaxClock : at_time(sbb, t) = sbb

\* the cast votes of the run in which the voters at positions p and q have
\* exchanged their cast votes, ballot ids and records, in every race
exchange_votes(cvs, p, q) ==
    [id \in DOMAIN cvs |->
        [px \in DOMAIN cvs[id] |->
            IF px = p THEN cvs[id][q] ELSE IF px = q THEN cvs[id][p] ELSE cvs[id][px]]]

\* the voters of that run: the receipts go with the cast votes
exchange_receipts(vs, p, q) ==
    [n \in DOMAIN vs |->
        IF vs[n].px = p
        THEN [vs[n] EXCEPT !.receipts = (CHOOSE w \in Range(vs) : w.px = q).receipts]
        ELSE IF vs[n].px = q
        THEN [vs[n] EXCEPT !.receipts = (CHOOSE w \in Range(vs) : w.px = p).receipts]
        ELSE vs[n]]

\* the payloads posted under a label
Posted(label) == {sbb[j].payload : j \in {j \in 1..Len(sbb) : sbb[j].label = label}}

\* C13: the SBB does not link a ballot id to a voter: the casting:votes and
\* casting:receipts postings of a call of run_election are those of the run
\* in which two voters have exchanged their cast votes, so they do not tell
\* which ballot id belongs to the voter created i-th.
C13_NoVoterLink ==
    /\ Completed(runs, "post_cast_vote_commitments") =>
          \A p, q \in Range(el.p_list) :
              Posted("casting:votes") =
                  {[cast_vote_dict |->
                      cast_vote_dict(exchange_votes(cast_votes, p, q),
                                     race_ids, el.p_list, row_list)]}
    /\ Completed(runs, "post_voter_receipts") =>
          \A p, q \in Range(el.p_list) :
              Posted("casting:receipts") =
                  {[receipt_dict |->
                      receipt_dict(exchange_receipts(voters, p, q), Len(voters))]}

\* C14: the casting:receipts posting of a call of run_election holds the
\* receipt of every cast vote: for every voter and race the ballot id of the
\* voter's vote is a key of receipt_dict and maps to that voter's receipt,
\* and receipt_dict has exactly n_voters * n_races entries.
C14_ReceiptsComplete ==
    Completed(runs, "post_voter_receipts") =>
        \A pl \in Posted("casting:receipts") :
            /\ \A n \in 1..Len(voters) : \A id \in Range(race_ids) :
                  LET rec == cast_votes[id][voters[n].px][row_list[1]]
                  IN /\ rec.ballot_id \in DOMAIN pl.receipt_dict
                     /\ pl.receipt_dict[rec.ballot_id] = receipt_of(id, rec)
            /\ Cardinality(DOMAIN pl.receipt_dict) = Len(voters) * n_races

\* the statement group that ends each transition of the orchestrator, in the
\* order Init, SetupRaces, SetupVoters, SetupKeys, CastVotes,
\* DistributeToGrid, PostCommitments, PostReceipts, Mix, Tally, PostTally,
\* Proof, Close (Close posts election:done. and closes the board)
TransitionGroups ==
    <<"sbb_start", "setup_races", "setup_voters", "setup_keys", "cast_vote",
      "distribute_cast_votes", "post_cast_vote_commitments",
      "post_voter_receipts", "mix", "compute_tally", "post_tally",
      "make_proof", "post_done">>

\* group g has completed: in __init__, or in the running call of run_election
GroupDone(g) == Completed(IF g \in Range(ctor_steps) THEN 0 ELSE call, g)

\* this step completes group g
Completes(g) == <<call, g>> \in completed' /\ <<call, g>> \notin completed

\* the transitions are taken in order, each after all earlier ones and before
\* all later ones, and never again in the same call
TransitionsInOrder ==
    /\ [][\A n \in 1..Len(TransitionGroups) :
             Completes(TransitionGroups[n]) =>
                 /\ \A k \in 1..(n - 1) : GroupDone(TransitionGroups[k])
                 /\ \A k \in (n + 1)..Len(TransitionGroups) :
                        ~GroupDone(TransitionGroups[k])]_vars
    /\ [](\A n \in 1..Len(TransitionGroups) :
             at(TransitionGroups[n]) => ~GroupDone(TransitionGroups[n]))
    /\ [](CompleteRun =>
             \A n \in 1..Len(TransitionGroups) : GroupDone(TransitionGroups[n]))

\* the transitions that end without an entry on the SBB
SilentGroups == {"setup_keys", "cast_vote", "distribute_cast_votes", "compute_tally"}

\* C15 as stated: the orchestrator takes the transitions Init, SetupRaces,
\* SetupVoters, SetupKeys, CastVotes, DistributeToGrid, PostCommitments,
\* PostReceipts, Mix, Tally, PostTally, Proof, Close once each and in this
\* order, and every transition is recorded on the SBB before the next
\* begins: the step that ends it adds an entry to the log.
C15_TransitionsRecorded ==
    /\ TransitionsInOrder
    /\ [][\A n \in 1..Len(TransitionGroups) :
             Completes(TransitionGroups[n]) => Len(sbb') > Len(sbb)]_vars

\* C15: the orchestrator takes the thirteen transitions once each and in
\* this order, none before the previous one has completed; Init,
\* SetupRaces, SetupVoters, PostCommitments, PostReceipts, Mix, PostTally,
\* Proof and Close end with a posting on the SBB, while SetupKeys, CastVotes,
\* DistributeToGrid and Tally end without adding any entry.
C15_TransitionsSequential ==
    /\ TransitionsInOrder
    /\ [][\A n \in 1..Len(TransitionGroups) :
             Completes(TransitionGroups[n]) =>
                 IF TransitionGroups[n] \in SilentGroups
                 THEN sbb' = sbb
                 ELSE Len(sbb') = Len(sbb) + 1]_vars

\* the votes are cast and distributed, and the log still ends with
\* setup:finished
C15_Witness ==
    /\ at("post_cast_vote_commitments")
    /\ runs = 1
    /\ Completed(0, "setup_keys")
    /\ Completed(1, "cast_vote")
    /\ Completed(1, "distribute_cast_votes")
    /\ Len(sbb) = 4
    /\ sbb[4].label = "setup:finished"

\* column 0 of the grid holds, for every race, row and position, the eight
\* fields of the cast vote, and nothing at any other position
ColumnZeroHoldsVotes(db, cvs) ==
    \A id \in Range(race_ids) : \A i \in Range(row_list) : \A f \in CastFields :
        /\ DOMAIN db[id][i][0][f] = Range(el.p_list)
        /\ \A px \in Range(el.p_list) : db[id][i][0][f][px] = cvs[id][px][i][f]

\* C16: after distribute_cast_votes column 0 of the server database holds
\* exactly the voters' records: each of the eight fields at
\* sdb[race][i][0][field][px] equals cast_votes[race][px][i][field];
\* distribute_cast_votes writes no column other than column 0 and leaves
\* cast_votes unchanged.
C16_DistributeFrame ==
    /\ [][Completes("distribute_cast_votes") =>
             /\ ColumnZeroHoldsVotes(sdb', cast_votes)
             /\ DOMAIN sdb' = DOMAIN sdb
             /\ \A id \in DOMAIN sdb :
                   /\ DOMAIN sdb'[id] = DOMAIN sdb[id]
                   /\ \A i \in DOMAIN sdb[id] :
                         /\ DOMAIN sdb'[id][i] = DOMAIN sdb[id][i]
                         /\ \A c \in (DOMAIN sdb[id][i]) \ {0} :
                               sdb'[id][i][c] = sdb[id][i][c]
             /\ cast_votes' = cast_votes
             /\ pass_rec' = pass_rec]_vars
    /\ [](Completed(runs, "distribute_cast_votes") =>
             ColumnZeroHoldsVotes(sdb, cast_votes))

\* the votes of two voters are in column 0 of every row of a grid of
\* several rows, and the other column is as the server built it
C16_Witness ==
    /\ Completed(1, "distribute_cast_votes")
    /\ runs = 1
    /\ Len(voters) = 2
    /\ Len(row_list) >= 2
    /\ ColumnZeroHoldsVotes(sdb, cast_votes)
    /\ \A id \in Range(race_ids) : \A i \in Range(row_list) :
          sdb[id][i][1] = empty_cell
    /\ \E id \in Range(race_ids) :
          cast_votes[id][el.p_list[1]][row_list[1]] #
              cast_votes[id][el.p_list[2]][row_list[1]]

RECURSIVE sequential_cast_votes(_, _, _)
\* cast_votes after the first k calls of lines 146-148 in the order of the
\* two loops, voter by voter, with the given choices and the draws from seed
sequential_cast_votes(k, choices, seed) ==
    IF k = 0 THEN initialize_cast_votes(race_ids, el.p_list)
    ELSE LET vi == ((k - 1) \div n_races) + 1
             race == races[((k - 1) % n_races) + 1]
             px == voters[vi].px
             rec == cast_record(choices[<<race.race_id, px>>], race.race_modulus,
                                el.ballot_id_len.i, rng_after(seed, 4 * (k - 1)))
         IN [sequential_cast_votes(k - 1, choices, seed)
                EXCEPT ![race.race_id][px] = [i \in Range(row_list) |-> rec]]

SetupObjectsKept ==
    /\ races' = races
    /\ race_ids' = race_ids
    /\ voter_ids' = voter_ids
    /\ DOMAIN voters' = DOMAIN voters
    /\ \A n \in DOMAIN voters :
          /\ voters'[n].voter_id = voters[n].voter_id
          /\ voters'[n].px = voters[n].px

\* C18 as stated: run_election and every phase within it leave the races,
\* the race ids, the voters, the voter ids and the state of each voter and
\* race object, the voter's receipts included, as setup produced them.
C18_SetupObjectsFrozen ==
    [][phase = "run" =>
          (SetupObjectsKept /\ \A n \in DOMAIN voters :
                                   voters'[n].receipts = voters[n].receipts)]_vars

\* C18: run_election and every phase within it leave the races, the race
\* ids, the voter ids, the list of voters and each voter's id and position
\* as setup produced them; a voter's receipts are changed by that voter's
\* cast_vote only, which adds the receipt of the vote under its ballot id,
\* and by no other phase.
C18_OnlyReceiptsChange ==
    /\ [][phase = "run" =>
             /\ SetupObjectsKept
             /\ \A n \in DOMAIN voters :
                   \/ voters'[n].receipts = voters[n].receipts
                   \/ /\ at("cast_vote")
                      /\ n = cast_voter
                      /\ LET rec == cast_votes'[races[cast_race].race_id][voters[n].px][row_list[1]]
                         IN voters'[n].receipts =
                                DictSet(voters[n].receipts, rec.ballot_id,
                                        receipt_of(races[cast_race].race_id, rec))]_vars
    /\ [](phase \in {"idle", "run"} =>
             /\ races = races_of(el.ballot_style)
             /\ race_ids = race_ids_of(el.ballot_style)
             /\ voter_ids = [n \in 1..el.n_voters |-> voter_id(n - 1)]
             /\ DOMAIN voters = 1..el.n_voters
             /\ \A n \in DOMAIN voters :
                   voters[n].voter_id = voter_id(n - 1) /\ voters[n].px = el.p_list[n])

\* every voter holds a receipt after the casting, and the receipts are posted
C18_Witness ==
    /\ Completed(1, "post_voter_receipts")
    /\ runs = 1
    /\ Len(voters) = 2
    /\ \A n \in DOMAIN voters : voters[n].receipts # EmptyDict
    /\ voters[2].px = el.p_list[2]

CommitmentFields == {"ballot_id", "cu", "cv"}

\* payload pl has, for every race, position and row, the three commitment
\* fields of the cast votes cvs and no other field
CommitmentsOnly(pl, cvs) ==
    /\ DOMAIN pl = {"cast_vote_dict"}
    /\ DOMAIN pl.cast_vote_dict = Range(race_ids)
    /\ \A id \in Range(race_ids) :
          /\ DOMAIN pl.cast_vote_dict[id] = Range(el.p_list)
          /\ \A px \in Range(el.p_list) :
                /\ DOMAIN pl.cast_vote_dict[id][px] = Range(row_list)
                /\ \A i \in Range(row_list) :
                      /\ DOMAIN pl.cast_vote_dict[id][px][i] = CommitmentFields
                      /\ \A f \in CommitmentFields :
                            pl.cast_vote_dict[id][px][i][f] = cvs[id][px][i][f]

\* C19: the casting:votes posting discloses commitments only: its payload
\* has, for every race, position and server row, exactly the fields
\* ballot_id, cu and cv copied from the cast-vote record, and none of x, u,
\* v, ru, rv.
C19_CommitmentsOnly ==
    /\ [][Completes("post_cast_vote_commitments") =>
             /\ Len(sbb') = Len(sbb) + 1
             /\ sbb'[Len(sbb')].label = "casting:votes"
             /\ CommitmentsOnly(sbb'[Len(sbb')].payload, cast_votes)]_vars
    /\ [](\A pl \in Posted("casting:votes") :
             \A id \in DOMAIN pl.cast_vote_dict :
                 \A px \in DOMAIN pl.cast_vote_dict[id] :
                     \A i \in DOMAIN pl.cast_vote_dict[id][px] :
                         DOMAIN pl.cast_vote_dict[id][px][i] \cap
                             {"x", "u", "v", "ru", "rv"} = {})

\* the commitments of two races and two voters are posted while the cast
\* votes hold the shares and randomizers
C19_Witness ==
    /\ Posted("casting:votes") # {}
    /\ n_races = 2
    /\ Len(voters) = 2
    /\ \A id \in Range(race_ids) : \A px \in Range(el.p_list) :
          DOMAIN cast_votes[id][px][row_list[1]] = CastFields
    /\ \A pl \in Posted("casting:votes") : CommitmentsOnly(pl, cast_votes)

====
